---- MODULE Spec2Model ----
(***************************************************************************)
(* Model of the wetrocloud-sdk client library.                             *)
(*                                                                         *)
(*   - the service facade `Wetrocloud` (src/src/index.ts): one async       *)
(*     method per remote operation, each a try { await request } catch     *)
(*     { return {message: errorMessage(e)} };                              *)
(*   - the transport `AxiosAPI.request` (src/src/axiosApi.ts);             *)
(*   - `errorMessage` (src/src/utils.ts);                                  *)
(*   - the line-delimited JSON stream decoder, the async generator that    *)
(*     queryResource returns in streaming mode (src/src/index.ts:180-210); *)
(*   - the request bodies the facade builds from its arguments, with       *)
(*     generateRandomString (src/src/utils.ts) and JSON.stringify;         *)
(*   - construction, credentials and cancellation: the constructors of     *)
(*     Wetrocloud and AxiosAPI, and FetchAPI (src/src/fetchApi.ts) with    *)
(*     its AbortController.                                                *)
(*   - one request through FetchAPI.request or AxiosAPI.request: the       *)
(*     headers and the body handed to the HTTP client, and the result of   *)
(*     the call for a given response.                                      *)
(*                                                                         *)
(* JavaScript values are tagged records: [t |-> "string", v |-> ...],      *)
(* [t |-> "object", f |-> <record of fields>], [t |-> "undefined"], ...    *)
(***************************************************************************)
EXTENDS FiniteSets, Integers, Sequences, TLC

VARIABLES
    calls,      \* facade: call id -> the call's record (op, request, outcome, promise)
    stream,     \* decoder: the bytes of the response body, in order
    pos,        \* decoder: number of bytes of `stream` already delivered in chunks
    src,        \* decoder: the Readable's state: "open", "ended" or "errored"
    buffer,     \* decoder: `buffer` of the generator (text, a sequence of code points)
    parts,      \* decoder: `parts` of the generator inside the while loop
    out,        \* decoder: the records yielded so far, in order
    pc,         \* decoder: where the generator is: "await", "lines", "done", "threw"
    seen,       \* decoder: history: the text appended to `buffer` so far
    built,      \* request building: the arguments of one facade call and its request
    instances,  \* transports: instance id -> the object's fields after `new`
    requests,   \* transports: the requests handed to the HTTP client, in order
    exchange    \* one request: the transport object, the options sent, the result

facadeVars == <<calls>>
decoderVars == <<stream, pos, src, buffer, parts, out, pc, seen>>
bodyVars == <<built>>
transportVars == <<instances, requests>>
exchangeVars == <<exchange>>
vars == <<calls, stream, pos, src, buffer, parts, out, pc, seen, built, instances,
          requests, exchange>>

(***************************************************************************)
(* Bounds of the model.                                                    *)
(***************************************************************************)
MaxCalls == 2

CallIds == 1..MaxCalls

(***************************************************************************)
(* JavaScript values.                                                      *)
(***************************************************************************)
Undefined == [t |-> "undefined"]
Str(s) == [t |-> "string", v |-> s]
Num(n) == [t |-> "number", n |-> n]
Bool(b) == [t |-> "boolean", b |-> b]
Arr(a) == [t |-> "array", a |-> a]
Obj(f) == [t |-> "object", f |-> f]
\* the Readable that axios resolves with under responseType "stream"
StreamHandle == [t |-> "stream"]
\* the async generator object queryResource returns in streaming mode
GeneratorObject == [t |-> "generator"]
EmptyFields == [k \in {} |-> Undefined]

\* v?.k : property access with optional chaining
Get(v, k) ==
    IF v.t = "object" /\ k \in DOMAIN v.f THEN v.f[k] ELSE Undefined

\* JavaScript truthiness, as used by the operators || and ?:
Truthy(v) ==
    CASE v.t = "undefined" -> FALSE
      [] v.t = "string" -> v.v # ""
      [] v.t = "number" -> v.n # 0
      [] v.t = "boolean" -> v.b
      [] OTHER -> TRUE

\* { ...a, k: x } : object spread followed by one property
SpreadWith(a, k, x) ==
    LET base == IF a.t = "object" THEN a.f ELSE EmptyFields
    IN Obj([j \in (DOMAIN base) \cup {k} |-> IF j = k THEN x ELSE base[j]])

(***************************************************************************)
(* utils.ts                                                                *)
(***************************************************************************)
FallbackMessage == Str("Something went wrong")

\* error?.response?.data || error?.message || 'Something went wrong'
errorMessage(error) ==
    LET data == Get(Get(error, "response"), "data")
        own == Get(error, "message")
    IN IF Truthy(data) THEN data
       ELSE IF Truthy(own) THEN own
       ELSE FallbackMessage

RequestMethods == [GET |-> "GET", POST |-> "POST", DELETE |-> "DELETE", PUT |-> "PUT"]

(***************************************************************************)
(* What the remote service (or the network) does with one request.         *)
(***************************************************************************)
BadRequestBody == Obj([message |-> Str("bad request")])

\* bodies of non-2xx answers: a JSON object with a message, a JSON object
\* without one, and an empty body
ErrorBodies == {BadRequestBody, Obj([detail |-> Str("Invalid token.")]), Str("")}

\* the documented 2xx body of each operation (types/response.types.ts)
SuccessBody(op) ==
    CASE op = "createCollection" ->
            Obj([collection_id |-> Str("c1"), success |-> Bool(TRUE)])
      [] op = "listCollections" ->
            Obj([results |-> Arr(<<Obj([collection_id |-> Str("c1"),
                                        created_at |-> Str("t0")])>>)])
      [] op = "insertResource" ->
            Obj([resource_id |-> Str("r1"), success |-> Bool(TRUE), token |-> Num(7)])
      [] op \in {"queryResource", "chat", "categorize"} ->
            Obj([response |-> Str("answer"), tokens |-> Num(7), success |-> Bool(TRUE)])
      [] op = "extract" ->
            Obj([response |-> Obj([title |-> Str("x")]), tokens |-> Num(7),
                 success |-> Bool(TRUE)])
      [] OTHER ->
            Obj([response |-> Str("ok"), success |-> Bool(TRUE)])

\* values a failing call can throw that are not axios errors with a response
ThrownErrors == {Obj(EmptyFields), Obj([message |-> Str("")])}

\* 2xx bodies of listCollections: no collection, one, and two in a given order
ListBodies ==
    {Obj([results |-> Arr(<<>>)]),
     SuccessBody("listCollections"),
     Obj([results |-> Arr(<<Obj([collection_id |-> Str("c2"), created_at |-> Str("t1")]),
                            Obj([collection_id |-> Str("c1"), created_at |-> Str("t0")])>>)])}

SuccessBodies(op) == IF op = "listCollections" THEN ListBodies ELSE {SuccessBody(op)}

Outcomes(op) ==
    {[kind |-> "http", status |-> 200, body |-> b] : b \in SuccessBodies(op)}
      \cup {[kind |-> "http", status |-> 400, body |-> b] : b \in ErrorBodies}
      \cup {[kind |-> "network"], [kind |-> "abort"]}
      \cup {[kind |-> "throw", error |-> e] : e \in ThrownErrors}

NoOutcome == [kind |-> "none"]

(***************************************************************************)
(* axiosApi.ts: AxiosAPI.request.  The promise of                          *)
(*   this.axiosInstance({url, method, data, headers, responseType})        *)
(*       .then((response) => response.data)                                *)
(* settles as axios settles it: a status in [200,300) resolves with the    *)
(* response, anything else rejects with an error carrying `response`.      *)
(***************************************************************************)
Resolved(v) == [state |-> "fulfilled", value |-> v]
Rejected(e) == [state |-> "rejected", reason |-> e]
Pending == [state |-> "pending"]

StatusMessage(status) ==
    IF status = 400 THEN "Request failed with status code 400"
    ELSE "Request failed with status code 500"

\* response.data: the parsed body, or the Readable under responseType "stream"
ResponseData(req, o) ==
    IF req.responseType = "stream" THEN StreamHandle ELSE o.body

request(req, o) ==
    CASE o.kind = "http" /\ o.status >= 200 /\ o.status < 300 ->
            Resolved(ResponseData(req, o))
      [] o.kind = "http" ->
            Rejected(Obj([message |-> Str(StatusMessage(o.status)),
                          response |-> Obj([data |-> ResponseData(req, o),
                                            status |-> Num(o.status)])]))
      [] o.kind = "network" -> Rejected(Obj([message |-> Str("Network Error")]))
      [] o.kind = "abort" -> Rejected(Obj([message |-> Str("Request aborted")]))
      [] OTHER -> Rejected(o.error)

(***************************************************************************)
(* index.ts: the facade.  Every method is                                  *)
(*   try { const res = await this.axiosApi.request({...}); return f(res) } *)
(*   catch (e) { return { message: errorMessage(e) } }                     *)
(* A call is issued by the method's action (the code up to the await) and  *)
(* completed by Settle (the code after the await).                         *)
(***************************************************************************)
Ops == {"createCollection", "listCollections", "insertResource", "queryResource",
        "chat", "deleteResource", "deleteCollection", "categorize",
        "textGeneration", "imageToText", "extract"}

\* the `stream` argument of queryResource as the caller passes it
StreamArgs == {"omitted", "true", "false"}

\* the parameter default `stream = true` of queryResource
StreamDefaultFalse(arg) == arg = "true"

StreamOption(arg) == IF arg = "omitted" THEN TRUE ELSE arg = "true"

Envelope(url, method, data, responseType) ==
    [url |-> url, method |-> method, data |-> data, responseType |-> responseType]

NoRequest == Envelope("", "", "none", "")

\* `sent` counts the requests the call has handed to the transport
IdleCall == [op |-> "", stream |-> "omitted", state |-> "idle", req |-> NoRequest,
             sent |-> 0, outcome |-> NoOutcome, promise |-> Pending]

\* the method has run up to `await this.axiosApi.request(req)`
Issue(c, op, arg, req) ==
    /\ calls[c].state = "idle"
    /\ calls' = [calls EXCEPT ![c] = [op |-> op, stream |-> arg, state |-> "pending",
                                      req |-> req, sent |-> 1, outcome |-> NoOutcome,
                                      promise |-> Pending]]
    /\ UNCHANGED <<decoderVars, bodyVars, exchangeVars, transportVars>>

createCollection(c) ==
    Issue(c, "createCollection", "omitted",
          Envelope("/collection/create/", RequestMethods.POST, "form", "json"))

listCollections(c) ==
    Issue(c, "listCollections", "omitted",
          Envelope("/collection/all/", RequestMethods.GET, "none", "json"))

insertResource(c) ==
    Issue(c, "insertResource", "omitted",
          Envelope("/resource/insert/", RequestMethods.POST, "json", "json"))

\* ...(stream ? { responseType: "stream" } : {})
queryResource(c, arg) ==
    Issue(c, "queryResource", arg,
          Envelope("/collection/query/", RequestMethods.POST, "json",
                   IF StreamOption(arg) THEN "stream" ELSE "json"))

chat(c) ==
    Issue(c, "chat", "omitted",
          Envelope("/collection/query/", RequestMethods.POST, "json", "json"))

deleteResource(c) ==
    Issue(c, "deleteResource", "omitted",
          Envelope("/resource/remove/", RequestMethods.DELETE, "form", "json"))

deleteCollection(c) ==
    Issue(c, "deleteCollection", "omitted",
          Envelope("/collection/delete/", RequestMethods.DELETE, "json", "json"))

categorize(c) ==
    Issue(c, "categorize", "omitted",
          Envelope("/categorize/", RequestMethods.POST, "json", "json"))

textGeneration(c) ==
    Issue(c, "textGeneration", "omitted",
          Envelope("/text-generation/", RequestMethods.POST, "json", "json"))

imageToText(c) ==
    Issue(c, "imageToText", "omitted",
          Envelope("/image-to-text/", RequestMethods.POST, "json", "json"))

extract(c) ==
    Issue(c, "extract", "omitted",
          Envelope("/data-extraction/", RequestMethods.POST, "form", "json"))

\* a listCollections that returns the response as it came
SuccessValueWholeBody(op, arg, res) ==
    CASE op = "queryResource" ->
            IF StreamOption(arg) THEN GeneratorObject
            ELSE SpreadWith(IF Truthy(res) THEN res ELSE Obj(EmptyFields),
                            "response", Get(res, "response"))
      [] OTHER -> res

\* what the try block returns once the transport has resolved with res
SuccessValue(op, arg, res) ==
    CASE op = "listCollections" -> Get(res, "results")
      [] op = "queryResource" ->
            IF StreamOption(arg) THEN GeneratorObject
            ELSE SpreadWith(IF Truthy(res) THEN res ELSE Obj(EmptyFields),
                            "response", Get(res, "response"))
      [] OTHER -> res

\* a catch block that lets the rejection through when the request was aborted
CatchRethrowsAbort(e) ==
    IF Get(e, "message") = Str("Request aborted") THEN Rejected(e)
    ELSE Resolved(Obj([message |-> errorMessage(e)]))

\* catch (e) { return { message: errorMessage(e) } }
Catch(e) == Resolved(Obj([message |-> errorMessage(e)]))

\* the promise of the async method, given how the awaited transport settled
MethodResult(op, arg, transport) ==
    IF transport.state = "fulfilled"
    THEN Resolved(SuccessValue(op, arg, transport.value))
    ELSE Catch(transport.reason)

\* a catch block that sends the request again when the exchange failed
SettleRetries(c) ==
    /\ calls[c].state = "pending"
    /\ \E o \in Outcomes(calls[c].op) :
          IF request(calls[c].req, o).state = "rejected" /\ calls[c].sent < 2
          THEN calls' = [calls EXCEPT ![c].sent = calls[c].sent + 1]
          ELSE calls' = [calls EXCEPT
                           ![c].state = "settled",
                           ![c].outcome = o,
                           ![c].promise = MethodResult(calls[c].op, calls[c].stream,
                                                       request(calls[c].req, o))]
    /\ UNCHANGED <<decoderVars, bodyVars, exchangeVars, transportVars>>

\* a transport that keeps the last response in a field of the instance, so
\* every method still awaiting reads the response that arrived last
SettleShared(c) ==
    /\ calls[c].state = "pending"
    /\ \E o \in Outcomes(calls[c].op) :
          calls' = [d \in CallIds |->
                      IF calls[d].state = "pending"
                      THEN [calls[d] EXCEPT
                              !.state = "settled",
                              !.outcome = o,
                              !.promise = MethodResult(calls[d].op, calls[d].stream,
                                                       request(calls[d].req, o))]
                      ELSE calls[d]]
    /\ UNCHANGED <<decoderVars, bodyVars, exchangeVars, transportVars>>

\* the awaited request settles and the method runs to its return
Settle(c) ==
    /\ calls[c].state = "pending"
    /\ \E o \in Outcomes(calls[c].op) :
          calls' = [calls EXCEPT
                      ![c].state = "settled",
                      ![c].outcome = o,
                      ![c].promise = MethodResult(calls[c].op, calls[c].stream,
                                                  request(calls[c].req, o))]
    /\ UNCHANGED <<decoderVars, bodyVars, exchangeVars, transportVars>>

(***************************************************************************)
(* Text.  A chunk is a sequence of bytes (0..255); text is a sequence of   *)
(* Unicode code points.  The byte alphabet of the model has ASCII bytes    *)
(* and the two bytes of U+00E9 (0xC3 0xA9), so the decoders below cover    *)
(* one- and two-byte UTF-8 sequences.                                      *)
(***************************************************************************)
Newline == 10

RECURSIVE Utf8From(_, _)
Utf8From(b, i) ==
    IF i > Len(b) THEN <<>>
    ELSE IF b[i] < 128 THEN <<b[i]>> \o Utf8From(b, i + 1)
    ELSE IF b[i] \in 194..223 /\ i < Len(b) /\ b[i + 1] \in 128..191
         THEN <<(b[i] - 192) * 64 + (b[i + 1] - 128)>> \o Utf8From(b, i + 2)
    ELSE <<65533>> \o Utf8From(b, i + 1)

\* chunk.toString(): Buffer.toString("utf8") of this chunk alone; a byte that
\* does not belong to a complete sequence inside the chunk becomes U+FFFD
toString(chunk) == Utf8From(chunk, 1)

RECURSIVE SplitFrom(_, _, _)
SplitFrom(s, i, cur) ==
    IF i > Len(s) THEN <<cur>>
    ELSE IF s[i] = Newline THEN <<cur>> \o SplitFrom(s, i + 1, <<>>)
    ELSE SplitFrom(s, i + 1, Append(cur, s[i]))

\* s.split("\n")
Split(s) == SplitFrom(s, 1, <<>>)

RECURSIVE Join(_)
\* parts.join("\n")
Join(ps) ==
    IF Len(ps) = 0 THEN <<>>
    ELSE IF Len(ps) = 1 THEN ps[1]
    ELSE ps[1] \o <<Newline>> \o Join(Tail(ps))

\* the white space String.prototype.trim removes (those that fit two bytes)
TrimSpace == {9, 10, 11, 12, 13, 32, 160}

RECURSIVE TrimLeft(_)
TrimLeft(s) ==
    IF Len(s) > 0 /\ s[1] \in TrimSpace THEN TrimLeft(Tail(s)) ELSE s

RECURSIVE TrimRight(_)
TrimRight(s) ==
    IF Len(s) > 0 /\ s[Len(s)] \in TrimSpace THEN TrimRight(SubSeq(s, 1, Len(s) - 1))
    ELSE s

\* s.trim()
Trim(s) == TrimRight(TrimLeft(s))

(***************************************************************************)
(* JSON.parse on text: white space, unsigned integers, strings with their  *)
(* escapes, the literals true/false/null, arrays and objects.  A parse     *)
(* result is [ok, v, i]: whether a value was read, the value, and the      *)
(* index after it.                                                         *)
(***************************************************************************)
JsonSpace == {9, 10, 13, 32}
Digits == 48..57

JText(cps) == [t |-> "string", cp |-> cps]
JNum(n) == [t |-> "number", n |-> n]
JLit(name) == [t |-> name]
JArr(a) == [t |-> "array", a |-> a]
JObj(members) == [t |-> "object", m |-> members]

ParseFail == [ok |-> FALSE, v |-> JLit("undefined"), i |-> 0]
ParseOk(v, i) == [ok |-> TRUE, v |-> v, i |-> i]

RECURSIVE SkipSpace(_, _)
SkipSpace(s, i) ==
    IF i <= Len(s) /\ s[i] \in JsonSpace THEN SkipSpace(s, i + 1) ELSE i

RECURSIVE DigitsEnd(_, _)
DigitsEnd(s, i) ==
    IF i <= Len(s) /\ s[i] \in Digits THEN DigitsEnd(s, i + 1) ELSE i

RECURSIVE Decimal(_, _, _)
Decimal(s, i, j) ==
    IF j < i THEN 0 ELSE Decimal(s, i, j - 1) * 10 + (s[j] - 48)

\* a number starts at i: 0, or a run of digits that does not start with 0
ParseNumber(s, i) ==
    LET j == IF s[i] = 48 THEN i + 1 ELSE DigitsEnd(s, i)
    IN ParseOk(JNum(Decimal(s, i, j - 1)), j)

\* the character after a backslash -> the character the escape stands for:
\* \" \\ \/ \b \f \n \r \t
Escapes ==
    [c \in {34, 92, 47, 98, 102, 110, 114, 116} |->
        CASE c = 98 -> 8 [] c = 102 -> 12 [] c = 110 -> 10 [] c = 114 -> 13
          [] c = 116 -> 9 [] OTHER -> c]

HexDigits == (48..57) \cup (65..70) \cup (97..102)

HexValue(c) == IF c <= 57 THEN c - 48 ELSE IF c <= 70 THEN c - 55 ELSE c - 87

RECURSIVE StringChars(_, _, _)
\* the content of the string read from i up to its closing quote
StringChars(s, i, acc) ==
    IF i > Len(s) THEN ParseFail
    ELSE IF s[i] = 34 THEN ParseOk(JText(acc), i + 1)
    ELSE IF s[i] < 32 THEN ParseFail
    ELSE IF s[i] # 92 THEN StringChars(s, i + 1, Append(acc, s[i]))
    ELSE IF i + 1 > Len(s) THEN ParseFail
    ELSE IF s[i + 1] \in DOMAIN Escapes
         THEN StringChars(s, i + 2, Append(acc, Escapes[s[i + 1]]))
    ELSE IF s[i + 1] = 117 /\ i + 5 <= Len(s)
              /\ \A k \in (i + 2)..(i + 5) : s[k] \in HexDigits
         THEN StringChars(s, i + 6,
                          Append(acc, HexValue(s[i + 2]) * 4096 + HexValue(s[i + 3]) * 256
                                        + HexValue(s[i + 4]) * 16 + HexValue(s[i + 5])))
    ELSE ParseFail

ParseString(s, i) == StringChars(s, i + 1, <<>>)

StartsWith(s, i, word) ==
    /\ i + Len(word) - 1 <= Len(s)
    /\ SubSeq(s, i, i + Len(word) - 1) = word

\* obj[key] = v: a repeated key keeps its place and takes the last value
PutMember(members, key, v) ==
    IF \E k \in 1..Len(members) : members[k][1] = key
    THEN [k \in 1..Len(members) |->
             IF members[k][1] = key THEN <<key, v>> ELSE members[k]]
    ELSE Append(members, <<key, v>>)

RECURSIVE ParseValue(_, _)
RECURSIVE ParseElements(_, _, _)
RECURSIVE ParseMembers(_, _, _)

\* the elements of an array, the first of which starts at i
ParseElements(s, i, acc) ==
    LET e == ParseValue(s, SkipSpace(s, i))
        j == SkipSpace(s, e.i)
    IN IF ~e.ok \/ j > Len(s) THEN ParseFail
       ELSE IF s[j] = 93 THEN ParseOk(JArr(Append(acc, e.v)), j + 1)
       ELSE IF s[j] = 44 THEN ParseElements(s, j + 1, Append(acc, e.v))
       ELSE ParseFail

\* the members of an object, the first of which starts at i
ParseMembers(s, i, acc) ==
    LET k == SkipSpace(s, i)
        key == IF k <= Len(s) /\ s[k] = 34 THEN ParseString(s, k) ELSE ParseFail
        c == SkipSpace(s, key.i)
        e == IF key.ok /\ c <= Len(s) /\ s[c] = 58
             THEN ParseValue(s, SkipSpace(s, c + 1)) ELSE ParseFail
        j == SkipSpace(s, e.i)
    IN IF ~e.ok \/ j > Len(s) THEN ParseFail
       ELSE IF s[j] = 125 THEN ParseOk(JObj(PutMember(acc, key.v.cp, e.v)), j + 1)
       ELSE IF s[j] = 44 THEN ParseMembers(s, j + 1, PutMember(acc, key.v.cp, e.v))
       ELSE ParseFail

ParseValue(s, i) ==
    IF i > Len(s) THEN ParseFail
    ELSE IF s[i] \in Digits THEN ParseNumber(s, i)
    ELSE IF s[i] = 34 THEN ParseString(s, i)
    ELSE IF s[i] = 91
         THEN LET j == SkipSpace(s, i + 1)
              IN IF j <= Len(s) /\ s[j] = 93 THEN ParseOk(JArr(<<>>), j + 1)
                 ELSE ParseElements(s, i + 1, <<>>)
    ELSE IF s[i] = 123
         THEN LET j == SkipSpace(s, i + 1)
              IN IF j <= Len(s) /\ s[j] = 125 THEN ParseOk(JObj(<<>>), j + 1)
                 ELSE ParseMembers(s, i + 1, <<>>)
    ELSE IF StartsWith(s, i, <<116, 114, 117, 101>>) THEN ParseOk(JLit("true"), i + 4)
    ELSE IF StartsWith(s, i, <<102, 97, 108, 115, 101>>) THEN ParseOk(JLit("false"), i + 5)
    ELSE IF StartsWith(s, i, <<110, 117, 108, 108>>) THEN ParseOk(JLit("null"), i + 4)
    ELSE ParseFail

\* JSON.parse(s): [ok |-> FALSE] stands for the SyntaxError it throws
JSONparse(s) ==
    LET r == ParseValue(s, SkipSpace(s, 1))
    IN IF r.ok /\ SkipSpace(s, r.i) = Len(s) + 1 THEN [ok |-> TRUE, v |-> r.v]
       ELSE [ok |-> FALSE, v |-> JLit("undefined")]

(***************************************************************************)
(* JSON.stringify on the values JSON.parse produces.                       *)
(***************************************************************************)
RECURSIVE DecimalDigits(_)
DecimalDigits(n) ==
    IF n < 10 THEN <<48 + n>> ELSE Append(DecimalDigits(n \div 10), 48 + (n % 10))

HexDigit(n) == IF n < 10 THEN 48 + n ELSE 87 + n

\* one character of a string as JSON.stringify writes it
QuoteChar(c) ==
    CASE c = 34 -> <<92, 34>>
      [] c = 92 -> <<92, 92>>
      [] c = 8 -> <<92, 98>>
      [] c = 9 -> <<92, 116>>
      [] c = 10 -> <<92, 110>>
      [] c = 12 -> <<92, 102>>
      [] c = 13 -> <<92, 114>>
      [] c < 32 -> <<92, 117, 48, 48, HexDigit(c \div 16), HexDigit(c % 16)>>
      [] OTHER -> <<c>>

RECURSIVE QuoteChars(_)
QuoteChars(cps) ==
    IF cps = <<>> THEN <<>> ELSE QuoteChar(Head(cps)) \o QuoteChars(Tail(cps))

\* a string written between quotes without escaping anything
QuoteRaw(cps) == <<34>> \o cps \o <<34>>

Quote(cps) == <<34>> \o QuoteChars(cps) \o <<34>>

RECURSIVE JSONstringify(_)
RECURSIVE StringifyElements(_)
RECURSIVE StringifyMembers(_)

StringifyElements(a) ==
    IF a = <<>> THEN <<>>
    ELSE JSONstringify(Head(a))
           \o (IF Len(a) > 1 THEN <<44>> ELSE <<>>) \o StringifyElements(Tail(a))

StringifyMembers(m) ==
    IF m = <<>> THEN <<>>
    ELSE Quote(Head(m)[1]) \o <<58>> \o JSONstringify(Head(m)[2])
           \o (IF Len(m) > 1 THEN <<44>> ELSE <<>>) \o StringifyMembers(Tail(m))

\* JSON.stringify(v) for a value made of strings, numbers, true, false, null,
\* arrays and objects
JSONstringify(v) ==
    CASE v.t = "string" -> Quote(v.cp)
      [] v.t = "number" -> DecimalDigits(v.n)
      [] v.t = "true" -> <<116, 114, 117, 101>>
      [] v.t = "false" -> <<102, 97, 108, 115, 101>>
      [] v.t = "array" -> <<91>> \o StringifyElements(v.a) \o <<93>>
      [] v.t = "object" -> <<123>> \o StringifyMembers(v.m) \o <<125>>
      [] OTHER -> <<110, 117, 108, 108>>

(***************************************************************************)
(* index.ts:180-210: the async generator of queryResource.                 *)
(*                                                                         *)
(*   let buffer = "";                                                      *)
(*   for await (const chunk of resultStream) {                             *)
(*       buffer += chunk.toString();                                       *)
(*       let parts = buffer.split("\n");                                   *)
(*       while (parts.length > 1) {                                        *)
(*           const jsonPart = parts.shift();                               *)
(*           if (jsonPart?.trim()) {                                       *)
(*               try { yield JSON.parse(jsonPart) } catch (e) { log }      *)
(*           }                                                             *)
(*       }                                                                 *)
(*       buffer = parts.join("\n");                                        *)
(*   }                                                                     *)
(*   if (buffer.trim()) { try { yield JSON.parse(buffer) } catch { log } } *)
(*                                                                         *)
(* The generator runs between its suspension points: the await of the next *)
(* chunk and each yield.  The Readable delivers the body in chunks of any  *)
(* size, then ends, or fails at any moment before it has ended.            *)
(***************************************************************************)
MaxStreamLen == 4

\* "\n", " ", "1", the double quote, and the two bytes 0xC3 0xA9 of U+00E9
ByteAlphabet == {10, 32, 49, 34, 195, 169}

\* {"a":1}\n{"a":2}\n
SpecExample == <<123, 34, 97, 34, 58, 49, 125, 10, 123, 34, 97, 34, 58, 50, 125, 10>>

\* 1\n{\n2\n : a malformed line between two well-formed ones
MalformedBetween == <<49, 10, 123, 10, 50, 10>>

\* the bodies the model reads: every byte string up to the bound, and the
\* two examples
Streams ==
    UNION {[1..n -> ByteAlphabet] : n \in 0..MaxStreamLen}
      \cup {SpecExample, MalformedBetween}

\* the records one line contributes: try { yield JSON.parse(line) } catch {}
\* guarded by if (line.trim())
Yielded(line) ==
    IF Trim(line) = <<>> THEN <<>>
    ELSE LET r == JSONparse(line) IN IF r.ok THEN <<r.v>> ELSE <<>>

\* for await delivers the next chunk: k more bytes of the body
ReadChunk(k) ==
    /\ pc = "await"
    /\ src = "open"
    /\ pos + k <= Len(stream)
    /\ LET text == toString(SubSeq(stream, pos + 1, pos + k))
       IN /\ buffer' = buffer \o text
          /\ parts' = Split(buffer \o text)
          /\ seen' = seen \o text
    /\ pos' = pos + k
    /\ pc' = "lines"
    /\ UNCHANGED <<bodyVars, exchangeVars, transportVars, calls, stream, src, out>>

\* a loop turn without the try around JSON.parse: a malformed line throws
ProcessLineThrows ==
    /\ pc = "lines"
    /\ Len(parts) > 1
    /\ IF Trim(Head(parts)) # <<>> /\ ~JSONparse(Head(parts)).ok
       THEN pc' = "threw" /\ UNCHANGED <<out, parts>>
       ELSE out' = out \o Yielded(Head(parts)) /\ parts' = Tail(parts) /\ pc' = pc
    /\ UNCHANGED <<bodyVars, exchangeVars, transportVars, calls, stream, pos, src, buffer, seen>>

\* a loop turn that takes the line with parts.pop() instead of parts.shift()
ProcessLinePops ==
    /\ pc = "lines"
    /\ Len(parts) > 1
    /\ out' = out \o Yielded(parts[Len(parts)])
    /\ parts' = SubSeq(parts, 1, Len(parts) - 1)
    /\ UNCHANGED <<bodyVars, exchangeVars, transportVars, calls, stream, pos, src, buffer, pc, seen>>

\* one turn of while (parts.length > 1)
ProcessLine ==
    /\ pc = "lines"
    /\ Len(parts) > 1
    /\ out' = out \o Yielded(Head(parts))
    /\ parts' = Tail(parts)
    /\ UNCHANGED <<bodyVars, exchangeVars, transportVars, calls, stream, pos, src, buffer, pc, seen>>

\* the end of the while loop without buffer = parts.join("\n")
KeepLastKeepsBuffer ==
    /\ pc = "lines"
    /\ Len(parts) <= 1
    /\ parts' = <<>>
    /\ pc' = "await"
    /\ UNCHANGED <<bodyVars, exchangeVars, transportVars, calls, stream, pos, src, buffer,
                   out, seen>>

\* the while loop is over: buffer = parts.join("\n"), back to the await
KeepLast ==
    /\ pc = "lines"
    /\ Len(parts) <= 1
    /\ buffer' = Join(parts)
    /\ parts' = <<>>
    /\ pc' = "await"
    /\ UNCHANGED <<bodyVars, exchangeVars, transportVars, calls, stream, pos, src, out, seen>>

\* the Readable has no more data
SourceEnd ==
    /\ src = "open"
    /\ pos = Len(stream)
    /\ src' = "ended"
    /\ UNCHANGED <<bodyVars, exchangeVars, transportVars, calls, stream, pos, buffer, parts, out, pc, seen>>

\* the Readable fails (the connection is lost while the body is read)
SourceError ==
    /\ src = "open"
    /\ pc \in {"await", "lines"}
    /\ src' = "errored"
    /\ UNCHANGED <<bodyVars, exchangeVars, transportVars, calls, stream, pos, buffer, parts, out, pc, seen>>

\* a generator that returns at the end of the stream without the final
\* if (buffer.trim()) block
FinishDropsBuffer ==
    /\ pc = "await"
    /\ src = "ended"
    /\ pc' = "done"
    /\ UNCHANGED <<bodyVars, exchangeVars, transportVars, calls, stream, pos, src, buffer, parts, out, seen>>

\* for await sees the end: the code after the loop, then the generator returns
Finish ==
    /\ pc = "await"
    /\ src = "ended"
    /\ out' = out \o Yielded(buffer)
    /\ pc' = "done"
    /\ UNCHANGED <<bodyVars, exchangeVars, transportVars, calls, stream, pos, src, buffer, parts, seen>>

\* for await sees the failure: no try in the generator encloses the loop, so
\* the consumer's next() rejects
Throw ==
    /\ pc = "await"
    /\ src = "errored"
    /\ pc' = "threw"
    /\ UNCHANGED <<bodyVars, exchangeVars, transportVars, calls, stream, pos, src, buffer, parts, out, seen>>

(***************************************************************************)
(* Request building: what createCollection, queryResource, categorize and  *)
(* extract (index.ts) and queryResources (the older facade kept in         *)
(* fetchApi.ts) hand to the transport as `data`, given their arguments.    *)
(* Argument values are JSON.parse's values; an omitted argument is         *)
(* undefined.  A FormData is the sequence of its (name, value) entries, a  *)
(* plain object is an Obj.                                                 *)
(***************************************************************************)
MaxTextLen == 2

IdLength == 15

NotPassed == JLit("undefined")

\* truthiness of an argument, as used by || and ?:
JTruthy(v) ==
    CASE v.t \in {"undefined", "null", "false"} -> FALSE
      [] v.t = "string" -> v.cp # <<>>
      [] v.t = "number" -> v.n # 0
      [] OTHER -> TRUE

\* 'ABCDEFGHIJKLMNOPQRSTUVWXYZabcdefghijklmnopqrstuvwxyz0123456789'
Characters ==
    [i \in 1..62 |-> IF i <= 26 THEN 64 + i ELSE IF i <= 52 THEN 70 + i ELSE i - 5]

\* Math.random() returns r / RandomScale for some r in 0..RandomScale-1
RandomScale == 1000

\* the results of Math.random() the model draws: the least and the greatest
RandomDraws == {0, RandomScale - 1}

\* Math.round in place of Math.floor
RandomIndexRounded(r) == (2 * r * Len(Characters) + RandomScale) \div (2 * RandomScale)

\* Math.floor(Math.random() * characters.length)
RandomIndex(r) == (r * Len(Characters)) \div RandomScale

RECURSIVE JoinEmpty(_)
\* a.join('') on an array of strings
JoinEmpty(a) == IF a = <<>> THEN <<>> ELSE Head(a) \o JoinEmpty(Tail(a))

\* characters[i] for each draw, joined; an index past the end gives
\* undefined, which join writes as the empty string
generateRandomString(length, draws) ==
    JoinEmpty([i \in 1..length |->
                 IF RandomIndex(draws[i]) + 1 \in DOMAIN Characters
                 THEN <<Characters[RandomIndex(draws[i]) + 1]>>
                 ELSE <<>>])

\* formData.append(name, value)
FormAppend(form, name, value) == Append(form, [name |-> name, value |-> value])

\* formData.append("collection_id", collection_id || generateRandomString(15))
createCollectionData(collection_id, draws) ==
    FormAppend(<<>>, "collection_id",
               IF JTruthy(collection_id) THEN collection_id
               ELSE JText(generateRandomString(IdLength, draws)))

\* a requestData that lists every property, passed or not
queryResourceDataAllKeys(args) ==
    Obj([collection_id |-> args.collection_id,
         request_query |-> args.request_query,
         json_schema |-> IF JTruthy(args.json_schema)
                         THEN JText(JSONstringify(args.json_schema)) ELSE NotPassed,
         json_schema_rules |-> args.json_schema_rules,
         model |-> args.model])

\* { collection_id, request_query,
\*   ...(json_schema ? { json_schema: JSON.stringify(json_schema) } : {}),
\*   ...(json_schema_rules ? { json_schema_rules } : {}),
\*   ...(model ? { model } : {}) }
queryResourceData(args) ==
    LET required == Obj([collection_id |-> args.collection_id,
                         request_query |-> args.request_query])
        schema == IF JTruthy(args.json_schema)
                  THEN SpreadWith(required, "json_schema",
                                  JText(JSONstringify(args.json_schema)))
                  ELSE required
        rules == IF JTruthy(args.json_schema_rules)
                 THEN SpreadWith(schema, "json_schema_rules", args.json_schema_rules)
                 ELSE schema
    IN IF JTruthy(args.model) THEN SpreadWith(rules, "model", args.model) ELSE rules

\* fetchApi.ts: { collection_id, request_query,
\*   ...(json_schema ? { json_schema } : {}),
\*   ...(json_schema_rules ? { json_schema_rules } : {}) }
queryResourcesData(args) ==
    LET required == Obj([collection_id |-> args.collection_id,
                         request_query |-> args.request_query])
        schema == IF JTruthy(args.json_schema)
                  THEN SpreadWith(required, "json_schema", args.json_schema)
                  ELSE required
    IN IF JTruthy(args.json_schema_rules)
       THEN SpreadWith(schema, "json_schema_rules", args.json_schema_rules)
       ELSE schema

\* { resource, type, json_schema: JSON.stringify(json_schema), categories, prompt }
categorizeData(args) ==
    Obj([resource |-> args.resource,
         type |-> args.type,
         json_schema |-> JText(JSONstringify(args.json_schema)),
         categories |-> args.categories,
         prompt |-> args.prompt])

\* formData.append('website', website_url)
\* formData.append('json_schema', JSON.stringify(json_schema))
extractData(args) ==
    FormAppend(FormAppend(<<>>, "website", args.website_url),
               "json_schema", JText(JSONstringify(args.json_schema)))

\* the characters of the strings the caller passes: a, the double quote,
\* the backslash and the line feed
TextAlphabet == {97, 34, 92, 10}

Texts == UNION {[1..n -> TextAlphabet] : n \in 0..MaxTextLen}

\* collection_id as the caller passes it: omitted, "", "c1",
\* "my-collection_1"
CollectionIdArgs ==
    {NotPassed, JText(<<>>), JText(<<99, 49>>),
     JText(<<109, 121, 45, 99, 111, 108, 108, 101, 99, 116, 105, 111, 110, 95, 49>>)}

\* json_schema as the caller passes it: scalars, strings, flat objects, and
\* an array holding an object that holds an array
Schemas ==
    {JObj(<<>>), JArr(<<>>), JNum(0), JNum(15), JLit("null"), JLit("true"),
     JLit("false")}
      \cup {JText(s) : s \in Texts}
      \cup {JObj(<< <<k, JText(s)>> >>) : k \in Texts, s \in Texts}
      \cup {JArr(<<JObj(<< <<(<<97>>), JNum(1)>>,
                            <<k, JArr(<<JLit("true"), JText(k)>>)>> >>)>>) :
                k \in Texts \ {<<97>>}}

\* an optional string argument: omitted, "", or a word
OptionalTexts == {NotPassed, JText(<<>>), JText(<<97>>)}

QueryArgs ==
    [collection_id : {JText(<<99, 49>>)},
     request_query : {JText(<<97>>)},
     json_schema : Schemas \cup {NotPassed},
     json_schema_rules : OptionalTexts,
     model : OptionalTexts]

CategorizeArgs ==
    [resource : {JText(<<97>>)},
     type : {JText(<<97>>)},
     json_schema : Schemas,
     categories : {JArr(<<JText(<<97>>)>>)},
     prompt : {JText(<<97>>)}]

ExtractArgs == [website_url : {JText(<<97>>)}, json_schema : Schemas]

\* a method runs up to its call of the transport; NoCallYet is the guard of
\* every such step: the instance is fresh
NoCallYet == built.op = "none"

Build(op, args, data) ==
    /\ built' = [op |-> op, args |-> args, data |-> data]
    /\ UNCHANGED <<facadeVars, decoderVars, transportVars, exchangeVars>>

BuildCreateCollection ==
    /\ NoCallYet
    /\ \E id \in CollectionIdArgs, draws \in [1..IdLength -> RandomDraws] :
          Build("createCollection", [collection_id |-> id],
                createCollectionData(id, draws))

BuildQueryResource ==
    /\ NoCallYet
    /\ \E args \in QueryArgs : Build("queryResource", args, queryResourceData(args))

BuildQueryResources ==
    /\ NoCallYet
    /\ \E args \in QueryArgs : Build("queryResources", args, queryResourcesData(args))

BuildCategorize ==
    /\ NoCallYet
    /\ \E args \in CategorizeArgs : Build("categorize", args, categorizeData(args))

BuildExtract ==
    /\ NoCallYet
    /\ \E args \in ExtractArgs : Build("extract", args, extractData(args))

\* no request has been built
BodiesIdle == built = [op |-> "none"]

(***************************************************************************)
(* Construction, credentials and cancellation.                             *)
(*                                                                         *)
(* `instances` lists, in order, what the `new` expressions of the process  *)
(* produced: a Wetrocloud facade (index.ts:17-20) holding its AxiosAPI     *)
(* (axiosApi.ts:8-18), a FetchAPI (fetchApi.ts:16-19), or the Error a      *)
(* constructor threw.  `requests` lists the requests handed to the HTTP    *)
(* client (the axios instance, or fetch), each with the Authorization      *)
(* header and the AbortSignal it was given.  AbortController objects are   *)
(* numbered per instance.  The fields `given`, `cancelled` and             *)
(* `deadSignal` are history: the constructor's argument, whether a cancel  *)
(* was called on the instance while the request was in flight, and whether *)
(* the request's signal was already aborted when the request was issued.   *)
(***************************************************************************)
MaxInstances == 2
MaxRequests == 3
MaxCancels == 2

\* apiSecret as the caller passes it: absent, empty, and two keys
Secrets == {Undefined, Str(""), Str("k1"), Str("k2")}

\* apiSecret as passed to FetchAPI, whose constructor takes any string: the
\* empty one and a key
FetchSecrets == {Str(""), Str("k2")}

\* `Token ${apiSecret}`
TokenHeader(apiSecret) == [scheme |-> "Token", credential |-> apiSecret]

NoHeader == [scheme |-> "none"]

Constructed(class, given, authorization) ==
    [class |-> class, threw |-> FALSE, given |-> given, apiSecret |-> given,
     authorization |-> authorization, abortController |-> 0, aborted |-> {}]

\* throw new Error("apiSecret is required!")
Threw(class, given) ==
    [class |-> class, threw |-> TRUE, given |-> given, apiSecret |-> Undefined,
     authorization |-> NoHeader, abortController |-> 0, aborted |-> {}]

New(object) ==
    /\ Len(instances) < MaxInstances
    /\ instances' = Append(instances, object)
    /\ UNCHANGED <<facadeVars, decoderVars, bodyVars, exchangeVars, requests>>

\* a constructor without the check of apiSecret
NewWetrocloudUnchecked(apiSecret) ==
    New(Constructed("Wetrocloud", apiSecret, TokenHeader(apiSecret)))

\* a constructor that writes the header into defaults every instance shares
NewWetrocloudSharedDefaults(apiSecret) ==
    /\ Len(instances) < MaxInstances
    /\ Truthy(apiSecret)
    /\ instances' =
          Append([i \in 1..Len(instances) |->
                     IF instances[i].class = "Wetrocloud" /\ ~instances[i].threw
                     THEN [instances[i] EXCEPT !.authorization = TokenHeader(apiSecret)]
                     ELSE instances[i]],
                 Constructed("Wetrocloud", apiSecret, TokenHeader(apiSecret)))
    /\ UNCHANGED <<facadeVars, decoderVars, bodyVars, exchangeVars, requests>>

\* new Wetrocloud({ apiSecret }):
\*   if (!apiSecret) throw new Error("apiSecret is required!")
\*   this.axiosApi = new AxiosAPI({ apiSecret })
\* and in AxiosAPI: axios.create({ headers: { Authorization: `Token ${...}` } })
NewWetrocloud(apiSecret) ==
    IF ~Truthy(apiSecret)
    THEN New(Threw("Wetrocloud", apiSecret))
    ELSE New(Constructed("Wetrocloud", apiSecret, TokenHeader(apiSecret)))

\* new FetchAPI({ apiSecret }): this.apiSecret = apiSecret;
\* this.abortController = new AbortController()
NewFetchAPI(apiSecret) == New(Constructed("FetchAPI", apiSecret, NoHeader))

Usable(i, class) ==
    /\ i \in 1..Len(instances)
    /\ instances[i].class = class
    /\ ~instances[i].threw

Send(i, authorization, signal) ==
    /\ Len(requests) < MaxRequests
    /\ requests' = Append(requests,
           [instance |-> i, authorization |-> authorization, signal |-> signal,
            cancelled |-> FALSE,
            deadSignal |-> signal \cap instances[i].aborted # {},
            state |-> IF signal \cap instances[i].aborted # {}
                      THEN "aborted" ELSE "inflight"])
    /\ UNCHANGED <<facadeVars, decoderVars, bodyVars, exchangeVars, instances>>

\* AxiosAPI.request: this.axiosInstance({ url, method, data, headers }) with
\* the headers of axios.create and no signal
AxiosRequest(i) ==
    /\ Usable(i, "Wetrocloud")
    /\ Send(i, instances[i].authorization, {})

\* FetchAPI.request: authHeaders = this.apiSecret ? { Authorization } : {};
\* fetchFn(url, { signal: this.abortController.signal, headers })
FetchRequest(i) ==
    /\ Usable(i, "FetchAPI")
    /\ Send(i,
            IF Truthy(instances[i].apiSecret)
            THEN TokenHeader(instances[i].apiSecret) ELSE NoHeader,
            {instances[i].abortController})

\* the HTTP client settles a request in flight: a 2xx answer fulfils it,
\* any other answer or a network failure rejects it
Respond(r) ==
    /\ r \in 1..Len(requests)
    /\ requests[r].state = "inflight"
    /\ \E result \in {"fulfilled", "rejected"} :
          requests' = [requests EXCEPT ![r].state = result]
    /\ UNCHANGED <<facadeVars, decoderVars, bodyVars, exchangeVars, instances>>

\* a cancel is called on instance i: its requests in flight that hold the
\* signal of one of `controllers` reject with an AbortError
Cancel(i, controllers) ==
    [r \in 1..Len(requests) |->
        IF requests[r].instance = i /\ requests[r].state = "inflight"
        THEN [requests[r] EXCEPT
                !.cancelled = TRUE,
                !.state = IF requests[r].signal \cap controllers # {}
                          THEN "aborted" ELSE "inflight"]
        ELSE requests[r]]

\* a cancelRequests that aborts and keeps the aborted controller
cancelRequestsKeepsController(i) ==
    /\ Usable(i, "FetchAPI")
    /\ instances[i].abortController < MaxCancels
    /\ requests' = Cancel(i, {instances[i].abortController})
    /\ instances' = [instances EXCEPT
          ![i].aborted = instances[i].aborted \cup {instances[i].abortController}]
    /\ UNCHANGED <<facadeVars, decoderVars, bodyVars, exchangeVars>>

\* a cancelRequests that installs the fresh controller first and then
\* aborts the controller it holds
cancelRequestsAbortsFresh(i) ==
    /\ Usable(i, "FetchAPI")
    /\ instances[i].abortController < MaxCancels
    /\ requests' = Cancel(i, {instances[i].abortController + 1})
    /\ instances' = [instances EXCEPT
          ![i].aborted = instances[i].aborted \cup {instances[i].abortController + 1},
          ![i].abortController = instances[i].abortController + 1]
    /\ UNCHANGED <<facadeVars, decoderVars, bodyVars, exchangeVars>>

\* FetchAPI.cancelRequests: this.abortController.abort();
\* this.abortController = new AbortController()
cancelRequests(i) ==
    /\ Usable(i, "FetchAPI")
    /\ instances[i].abortController < MaxCancels
    /\ requests' = Cancel(i, {instances[i].abortController})
    /\ instances' = [instances EXCEPT
          ![i].aborted = instances[i].aborted \cup {instances[i].abortController},
          ![i].abortController = instances[i].abortController + 1]
    /\ UNCHANGED <<facadeVars, decoderVars, bodyVars, exchangeVars>>

\* AxiosAPI has no cancel: its cancelRequests is commented out, and its body,
\* this.axiosInstance.defaults.signal?.abort(), finds no signal in the
\* defaults.  A caller's attempt to cancel aborts no controller.
axiosCancelRequests(i) ==
    /\ Usable(i, "Wetrocloud")
    /\ requests' = Cancel(i, {})
    /\ UNCHANGED <<facadeVars, decoderVars, bodyVars, exchangeVars, instances>>

\* no transport object has been constructed
TransportIdle == instances = <<>> /\ requests = <<>>

(***************************************************************************)
(* One request through a transport object, from the options the transport  *)
(* hands its HTTP client to the promise its caller gets.                    *)
(*                                                                         *)
(* fetchApi.ts:21-53, FetchAPI.request:                                    *)
(*   const authHeaders = this.apiSecret                                    *)
(*       ? { Authorization: `Token ${this.apiSecret}` } : {};              *)
(*   return fetchFn(url, {                                                 *)
(*       signal, method,                                                   *)
(*       body: method !== RequestMethods.GET                               *)
(*           ? (data instanceof FormData ? data : JSON.stringify(data))    *)
(*           : undefined,                                                  *)
(*       headers: { ...(data instanceof FormData                           *)
(*                      ? { 'Content-Type': 'multipart/form-data' }        *)
(*                      : { 'Content-Type': 'application/json' }),         *)
(*                  ...authHeaders, ...headers },                          *)
(*   }).then(async (response) => {                                         *)
(*       if (!response.ok) {                                               *)
(*           const error = await response.json();                          *)
(*           return Promise.reject({ ...error, status: response.status,    *)
(*                                   statusText: response.statusText });   *)
(*       }                                                                 *)
(*       return response.json();                                           *)
(*   });                                                                   *)
(*                                                                         *)
(* axiosApi.ts:8-40, AxiosAPI: the constructor writes Authorization and    *)
(* Content-Type into the defaults of its axios instance; request hands     *)
(* { url, method, data, headers, responseType } to that instance and       *)
(* unwraps response.data.                                                  *)
(*                                                                         *)
(* Header objects are functions from header names to values; a request     *)
(* body is the value handed to the HTTP client: undefined, a string, a     *)
(* FormData or (AxiosAPI) the caller's mapping.                            *)
(***************************************************************************)
\* new FormData() after its appends
FormData(entries) == [t |-> "FormData", entries |-> entries]

\* `method` as callers pass it: the members of RequestMethods the facades
\* use, and the literal "get" of fetchApi.ts:89
Methods == {RequestMethods.GET, RequestMethods.POST, RequestMethods.DELETE, "get"}

\* `data` as callers pass it: omitted, a form without and with an entry,
\* a mapping without and with a member
Payloads ==
    {NotPassed, FormData(<<>>), FormData(FormAppend(<<>>, <<97>>, JText(<<98>>))),
     JObj(<<>>)}
      \cup {JObj(<< <<(<<97>>), JText(s)>> >>) : s \in Texts}

\* `headers` as callers pass it: omitted (the default {}), and one override
\* of each header the transport sets
CallerHeaders ==
    {EmptyFields,
     [n \in {"Authorization"} |-> TokenHeader(Str("k2"))],
     [n \in {"Content-Type"} |-> "text/plain"]}

\* { ...a, ...b }
Merge(a, b) ==
    [n \in (DOMAIN a) \cup (DOMAIN b) |-> IF n \in DOMAIN b THEN b[n] ELSE a[n]]

\* this.apiSecret ? { Authorization: `Token ${this.apiSecret}` } : {}
authHeaders(apiSecret) ==
    IF Truthy(apiSecret) THEN [n \in {"Authorization"} |-> TokenHeader(apiSecret)]
    ELSE EmptyFields

\* the `headers` option of the fetch call
fetchHeaders(data, apiSecret, headers) ==
    Merge(Merge(IF data.t = "FormData"
                THEN [n \in {"Content-Type"} |-> "multipart/form-data"]
                ELSE [n \in {"Content-Type"} |-> "application/json"],
                authHeaders(apiSecret)),
          headers)

\* the `body` option of the fetch call; JSON.stringify(undefined) is
\* undefined
fetchBody(method, data) ==
    IF method # RequestMethods.GET
    THEN IF data.t = "FormData" THEN data
         ELSE IF data.t = "undefined" THEN NotPassed
         ELSE JText(JSONstringify(data))
    ELSE NotPassed

\* the `headers` of axios.create
axiosDefaults(apiSecret) ==
    [n \in {"Authorization", "Content-Type"} |->
        IF n = "Authorization" THEN TokenHeader(apiSecret) ELSE "application/json"]

\* the responses of the service: a status, a status text, and the text of
\* the body:  {"a":1}  {"status":1}  {"statusText":"a"}  [1]  "ab"  null
\* and, not JSON,  <  and the empty body
Responses ==
    [status : {200, 299, 300, 404, 500},
     statusText : {JText(<<>>), JText(<<79, 75>>)},
     text : {<<123, 34, 97, 34, 58, 49, 125>>,
             <<123, 34, 115, 116, 97, 116, 117, 115, 34, 58, 49, 125>>,
             <<123, 34, 115, 116, 97, 116, 117, 115, 84, 101, 120, 116, 34, 58,
               34, 97, 34, 125>>,
             <<91, 49, 93>>, <<34, 97, 98, 34>>, <<110, 117, 108, 108>>,
             <<60>>, <<>>}]

\* response.ok
ResponseOk(response) == response.status >= 200 /\ response.status < 300

\* the own enumerable properties { ...error } copies: the members of an
\* object, the indexed elements of an array or a string, none of any other
\* value
SpreadOf(error) ==
    CASE error.t = "object" -> error.m
      [] error.t = "array" ->
            [i \in 1..Len(error.a) |-> <<DecimalDigits(i - 1), error.a[i]>>]
      [] error.t = "string" ->
            [i \in 1..Len(error.cp) |-> <<DecimalDigits(i - 1), JText(<<error.cp[i]>>)>>]
      [] OTHER -> <<>>

\* { ...error, status: response.status, statusText: response.statusText }
formattedError(error, response) ==
    JObj(PutMember(PutMember(SpreadOf(error),
                             <<115, 116, 97, 116, 117, 115>>, JNum(response.status)),
                   <<115, 116, 97, 116, 117, 115, 84, 101, 120, 116>>,
                   response.statusText))

\* what response.json() rejects with when the body is not JSON
DecodeError == [t |-> "SyntaxError"]

\* the .then callback of FetchAPI.request
fetchSettle(response) ==
    LET decoded == JSONparse(response.text)
    IN IF ~ResponseOk(response)
       THEN IF decoded.ok THEN Rejected(formattedError(decoded.v, response))
            ELSE Rejected(DecodeError)
       ELSE IF decoded.ok THEN Resolved(decoded.v) ELSE Rejected(DecodeError)

\* the promise of this.axiosInstance(config).then((response) => response.data):
\* axios keeps the text of a body that is not JSON as data, resolves a 2xx
\* response and rejects any other with an error that carries the response
axiosSettle(response) ==
    LET decoded == JSONparse(response.text)
        data == IF decoded.ok THEN decoded.v ELSE JText(response.text)
    IN IF ResponseOk(response) THEN Resolved(data)
       ELSE Rejected([t |-> "AxiosError",
                      response |-> [data |-> data, status |-> response.status,
                                    statusText |-> response.statusText]])

\* new FetchAPI({ apiSecret }) or new AxiosAPI({ apiSecret }); neither
\* constructor looks at apiSecret
NewTransport(class, apiSecret) ==
    [class |-> class, state |-> "constructed", apiSecret |-> apiSecret,
     defaults |-> IF class = "AxiosAPI" THEN axiosDefaults(apiSecret) ELSE EmptyFields]

Sent(method, data, given, headers, body) ==
    [class |-> exchange.class, state |-> "sent", apiSecret |-> exchange.apiSecret,
     defaults |-> exchange.defaults, method |-> method, data |-> data,
     given |-> given, headers |-> headers, body |-> body,
     response |-> NoOutcome, result |-> Pending]

\* FetchAPI.request up to the call of fetchFn
FetchAPIRequest ==
    /\ exchange.class = "FetchAPI"
    /\ exchange.state = "constructed"
    /\ \E method \in Methods, data \in Payloads, headers \in CallerHeaders :
          exchange' = Sent(method, data, headers,
                           fetchHeaders(data, exchange.apiSecret, headers),
                           fetchBody(method, data))
    /\ UNCHANGED <<facadeVars, decoderVars, bodyVars, transportVars>>

\* AxiosAPI.request up to the call of the axios instance, which lays the
\* headers of the call over its defaults
AxiosAPIRequest ==
    /\ exchange.class = "AxiosAPI"
    /\ exchange.state = "constructed"
    /\ \E method \in Methods, data \in Payloads, headers \in CallerHeaders :
          exchange' = Sent(method, data, headers,
                           Merge(exchange.defaults, headers), data)
    /\ UNCHANGED <<facadeVars, decoderVars, bodyVars, transportVars>>

\* the service answers and the promise of request settles
Answer ==
    /\ exchange.class \in {"FetchAPI", "AxiosAPI"}
    /\ exchange.state = "sent"
    /\ \E response \in Responses :
          exchange' = [exchange EXCEPT
              !.state = "settled",
              !.response = response,
              !.result = IF exchange.class = "FetchAPI" THEN fetchSettle(response)
                         ELSE axiosSettle(response)]
    /\ UNCHANGED <<facadeVars, decoderVars, bodyVars, transportVars>>

\* no transport object of this section exists
ExchangeIdle == exchange = [class |-> "none"]

(***************************************************************************)
(* Specifications.                                                         *)
(***************************************************************************)
DecoderIdle ==
    /\ stream = <<>>
    /\ pos = 0
    /\ src = "open"
    /\ buffer = <<>>
    /\ parts = <<>>
    /\ out = <<>>
    /\ pc = "await"
    /\ seen = <<>>

\* the facade after construction: no call issued
Init ==
    /\ calls = [c \in CallIds |-> IdleCall]
    /\ DecoderIdle
    /\ BodiesIdle
    /\ ExchangeIdle
    /\ TransportIdle

Next ==
    \E c \in CallIds :
        \/ createCollection(c)
        \/ listCollections(c)
        \/ insertResource(c)
        \/ \E arg \in StreamArgs : queryResource(c, arg)
        \/ chat(c)
        \/ deleteResource(c)
        \/ deleteCollection(c)
        \/ categorize(c)
        \/ textGeneration(c)
        \/ imageToText(c)
        \/ extract(c)
        \/ Settle(c)

Spec == Init /\ [][Next]_vars

NextBodies ==
    \/ BuildCreateCollection
    \/ BuildQueryResource
    \/ BuildQueryResources
    \/ BuildCategorize
    \/ BuildExtract

\* one facade method called on a fresh instance, with any arguments
SpecBodies == Init /\ [][NextBodies]_vars

NextConstruction ==
    \/ \E apiSecret \in Secrets : NewWetrocloud(apiSecret)
    \/ \E apiSecret \in FetchSecrets : NewFetchAPI(apiSecret)
    \/ \E i \in 1..MaxInstances : AxiosRequest(i)
    \/ \E i \in 1..MaxInstances : FetchRequest(i)
    \/ \E i \in 1..MaxInstances : cancelRequests(i)
    \/ \E i \in 1..MaxInstances : axiosCancelRequests(i)

\* a process that constructs facades and transports, sends requests through
\* them and cancels, in any order
SpecConstruction == Init /\ [][NextConstruction]_vars

\* one transport after its construction: the AxiosAPI of a facade, or a
\* FetchAPI
InitTransport ==
    /\ calls = [c \in CallIds |-> IdleCall]
    /\ DecoderIdle
    /\ BodiesIdle
    /\ ExchangeIdle
    /\ instances \in {<<Constructed("Wetrocloud", Str("k1"), TokenHeader(Str("k1")))>>,
                       <<Constructed("FetchAPI", Str("k1"), NoHeader)>>}
    /\ requests = <<>>

NextTransport ==
    \/ \E i \in 1..Len(instances) : AxiosRequest(i)
    \/ \E i \in 1..Len(instances) : FetchRequest(i)
    \/ \E r \in 1..MaxRequests : Respond(r)
    \/ \E i \in 1..Len(instances) : cancelRequests(i)
    \/ \E i \in 1..Len(instances) : axiosCancelRequests(i)

\* requests sent through one transport, answered and cancelled in any order
SpecTransport == InitTransport /\ [][NextTransport]_vars

\* one transport object after its construction, with an empty apiSecret or
\* a key
InitExchange ==
    /\ calls = [c \in CallIds |-> IdleCall]
    /\ DecoderIdle
    /\ BodiesIdle
    /\ TransportIdle
    /\ exchange \in {NewTransport(class, apiSecret) :
                        class \in {"FetchAPI", "AxiosAPI"},
                        apiSecret \in {Str(""), Str("k1")}}

NextExchange ==
    \/ FetchAPIRequest
    \/ AxiosAPIRequest
    \/ Answer

\* one request through one transport object, with any arguments and any
\* response
SpecExchange == InitExchange /\ [][NextExchange]_vars

\* a streaming queryResource whose transport resolved with the Readable
StreamingCall(arg) ==
    LET req == Envelope("/collection/query/", RequestMethods.POST, "json", "stream")
        o == [kind |-> "http", status |-> 200, body |-> SuccessBody("queryResource")]
    IN [op |-> "queryResource", stream |-> arg, state |-> "settled", req |-> req,
        sent |-> 1, outcome |-> o,
        promise |-> MethodResult("queryResource", arg, request(req, o))]

\* queryResource has returned the generator; nothing has been read yet
InitDecoder ==
    /\ calls = [c \in CallIds |-> IF c = 1 THEN StreamingCall("true") ELSE IdleCall]
    /\ stream \in Streams
    /\ pos = 0
    /\ src = "open"
    /\ buffer = <<>>
    /\ parts = <<>>
    /\ out = <<>>
    /\ pc = "await"
    /\ seen = <<>>
    /\ BodiesIdle
    /\ ExchangeIdle
    /\ TransportIdle

NextDecoder ==
    \/ \E k \in 1..Len(stream) : ReadChunk(k)
    \/ ProcessLine
    \/ KeepLast
    \/ SourceEnd
    \/ SourceError
    \/ Finish
    \/ Throw

SpecDecoder == InitDecoder /\ [][NextDecoder]_vars

\* the consumer keeps pulling (for await ... of the generator), so the
\* generator's own steps are taken whenever they stay possible
LiveDecoder ==
    InitDecoder /\ [][NextDecoder]_vars /\ WF_vars(ProcessLine \/ KeepLast \/ Finish)

(***************************************************************************)
(* The facade's contract (specification Spec).                             *)
(***************************************************************************)
Settled(c) == calls[c].state = "settled"

Answered2xx(c) ==
    /\ calls[c].outcome.kind = "http"
    /\ calls[c].outcome.status >= 200
    /\ calls[c].outcome.status < 300

\* the error value: an object whose only field is `message`
IsErrorValue(v) == v.t = "object" /\ DOMAIN v.f = {"message"}

\* the declared success type of each operation (types/response.types.ts)
IsSuccessPayload(op, v) ==
    CASE op = "listCollections" -> v.t = "array"
      [] op = "queryResource" ->
            \/ v.t = "generator"
            \/ v.t = "object" /\ {"response", "success"} \subseteq DOMAIN v.f
      [] OTHER -> v.t = "object" /\ "success" \in DOMAIN v.f

\* C1: whatever the transport does (2xx body, non-2xx answer, network error,
\* abort, thrown value), the promise of every facade method is fulfilled,
\* never rejected, and its value is the operation's success payload when the
\* transport resolved and the error value {message} when it failed.
FacadeNeverRejects ==
    \A c \in CallIds :
        Settled(c) =>
            /\ calls[c].promise.state = "fulfilled"
            /\ IF Answered2xx(c)
               THEN /\ IsSuccessPayload(calls[c].op, calls[c].promise.value)
                    /\ ~IsErrorValue(calls[c].promise.value)
               ELSE /\ IsErrorValue(calls[c].promise.value)
                    /\ ~IsSuccessPayload(calls[c].op, calls[c].promise.value)

\* C1 witness: every kind of transport failure and a success have been turned
\* into a fulfilled promise
FacadeNeverRejectsWitness ==
    /\ Settled(1) /\ calls[1].outcome.kind = "abort"
    /\ calls[1].promise = Resolved(Obj([message |-> Str("Request aborted")]))
    /\ Settled(2) /\ Answered2xx(2)
    /\ calls[2].promise.state = "fulfilled"

AnsweredBadRequest(c) ==
    calls[c].outcome = [kind |-> "http", status |-> 400, body |-> BadRequestBody]

\* C2: a call answered 400 with the body {"message":"bad request"} returns
\* exactly {message: "bad request"}.
BadRequestMessage ==
    \A c \in CallIds :
        Settled(c) /\ AnsweredBadRequest(c) =>
            calls[c].promise = Resolved(Obj([message |-> Str("bad request")]))

\* C3: the message field of every returned error value is a string.
ErrorMessageIsString ==
    \A c \in CallIds :
        Settled(c) /\ ~Answered2xx(c) /\ calls[c].promise.state = "fulfilled" =>
            Get(calls[c].promise.value, "message").t = "string"

\* the error the catch block of call c received
Caught(c) == request(calls[c].req, calls[c].outcome).reason

\* the derivation as the specification words it: the message nested under
\* the response body, else the error's own message, else the fallback
DerivedMessage(e) ==
    LET nested == Get(Get(Get(e, "response"), "data"), "message")
        own == Get(e, "message")
    IN IF nested # Undefined THEN nested
       ELSE IF own # Undefined THEN own
       ELSE FallbackMessage

\* C4: the message a failed call returns is derived in the order: message
\* nested under the response body, the error's own message, the fallback
\* "Something went wrong" (only when both are absent).
ErrorMessagePriority ==
    \A c \in CallIds :
        Settled(c) /\ ~Answered2xx(c) /\ calls[c].promise.state = "fulfilled" =>
            Get(calls[c].promise.value, "message") = DerivedMessage(Caught(c))

IsQuery(c) == calls[c].state # "idle" /\ calls[c].op = "queryResource"

\* C9 as stated: a queryResource call that does not pass the stream option
\* asks the transport for a parsed body and returns a single object; the
\* decoder runs only for calls that pass stream: true.
StreamingOnlyOnRequest ==
    \A c \in CallIds :
        IsQuery(c) =>
            /\ calls[c].req.responseType = "stream" <=> calls[c].stream = "true"
            /\ Settled(c) /\ Answered2xx(c) =>
                  (calls[c].promise.value.t = "generator" <=> calls[c].stream = "true")

\* C9 amended: stream defaults to true, so queryResource is non-streaming
\* exactly when the caller passes stream: false; then the transport is asked
\* for a parsed body and the method returns one object carrying the body's
\* response; otherwise it asks for a stream and returns the record sequence.
StreamingUnlessDeclined ==
    \A c \in CallIds :
        IsQuery(c) =>
            /\ calls[c].req.responseType = "stream" <=> calls[c].stream # "false"
            /\ Settled(c) /\ Answered2xx(c) =>
                  IF calls[c].stream = "false"
                  THEN /\ calls[c].promise.value.t = "object"
                       /\ Get(calls[c].promise.value, "response")
                            = Get(calls[c].outcome.body, "response")
                  ELSE calls[c].promise.value = GeneratorObject

\* C9 witness: a call that omitted the option got the generator, and a call
\* that passed stream: false got one object
StreamingUnlessDeclinedWitness ==
    /\ IsQuery(1) /\ calls[1].stream = "omitted" /\ Settled(1) /\ Answered2xx(1)
    /\ calls[1].promise.value = GeneratorObject
    /\ IsQuery(2) /\ calls[2].stream = "false" /\ Settled(2) /\ Answered2xx(2)
    /\ calls[2].promise.value.t = "object"

(***************************************************************************)
(* The stream decoder's contract (specifications SpecDecoder, LiveDecoder).*)
(* `seen` is the text the generator has received; its lines are the        *)
(* segments of seen.split("\n"), the last of which is not yet terminated.  *)
(***************************************************************************)
\* a line that is non-empty after trimming and decodes as JSON
WellFormed(line) == Trim(line) # <<>> /\ JSONparse(line).ok

RECURSIVE RecordsOf(_)
\* the decoded values of the well-formed lines among `lines`, in order
RecordsOf(lines) ==
    IF lines = <<>> THEN <<>>
    ELSE (IF WellFormed(Head(lines)) THEN <<JSONparse(Head(lines)).v>> ELSE <<>>)
            \o RecordsOf(Tail(lines))

\* how many lines of `seen` the generator has dealt with
Handled ==
    CASE pc = "lines" -> Len(Split(seen)) - Len(parts)
      [] pc = "done" -> Len(Split(seen))
      [] OTHER -> Len(Split(seen)) - 1

\* C5: the records do not depend on where the body is cut into chunks: at
\* the end they are the well-formed lines of the whole body's text.
ChunkBoundaryIndependence ==
    pc = "done" => out = RecordsOf(Split(toString(stream)))

\* the number of well-formed lines among the first i lines of `seen`
Rank(i) == Cardinality({j \in 1..i : WellFormed(Split(seen)[j])})

\* C6: a malformed line is skipped and ends nothing: every well-formed line
\* dealt with so far, before or after a malformed one, has been yielded at
\* its place, and the malformed lines have contributed no record.
MalformedLineIsolation ==
    /\ pc # "threw" \/ src = "errored"
    /\ Len(out) = Rank(Handled)
    /\ \A i \in 1..Handled :
          WellFormed(Split(seen)[i]) =>
              /\ Rank(i) <= Len(out)
              /\ out[Rank(i)] = JSONparse(Split(seen)[i]).v

\* C6 witness: 1\n{\n2\n has been read to its end and gave exactly 1 and 2
MalformedLineIsolationWitness ==
    /\ stream = MalformedBetween
    /\ pc = "done"
    /\ ~WellFormed(Split(seen)[2])
    /\ out = <<JNum(1), JNum(2)>>

\* the text after the last newline received
Trailing == Split(seen)[Len(Split(seen))]

\* C7: at the end of the stream a trailing buffer that is empty or blank
\* adds no record, one that is well-formed adds exactly one, one that is
\* malformed adds none; nothing is yielded after that.
EndOfStream ==
    /\ [](pc = "done" =>
            /\ buffer = Trailing
            /\ out = RecordsOf(SubSeq(Split(seen), 1, Len(Split(seen)) - 1))
                       \o (IF WellFormed(Trailing) THEN <<JSONparse(Trailing).v>>
                           ELSE <<>>))
    /\ [][pc = "done" => out' = out]_vars

\* C7 witness: a stream that ended in an unterminated well-formed line gave
\* one more record for it
EndOfStreamWitness ==
    /\ pc = "done"
    /\ stream = <<49, 10, 49, 49>>
    /\ out = <<JNum(1), JNum(11)>>

IsPrefix(a, b) == Len(a) <= Len(b) /\ SubSeq(b, 1, Len(a)) = a

\* C8: the records are, at every moment, those of the lines dealt with so
\* far in stream order; the sequence only grows at its end; once the chunk
\* sequence has ended the generator returns, and after that it yields
\* nothing and stays returned.
OrderAndTermination ==
    /\ [](out = RecordsOf(SubSeq(Split(seen), 1, Handled)))
    /\ [][IsPrefix(out, out')]_vars
    /\ [][pc = "done" => pc' = "done"]_vars
    /\ (src = "ended") ~> (pc = "done")

\* C8 witness: the generator has returned after yielding the two records of
\* the specification's example, in order
OrderAndTerminationWitness ==
    /\ stream = SpecExample
    /\ pc = "done"
    /\ out = <<JObj(<<<<<<97>>, JNum(1)>>>>), JObj(<<<<<<97>>, JNum(2)>>>>)>>

\* C10: a failure of the chunk stream while the records are consumed is
\* never thrown at the consumer.
StreamFailureNotThrown == pc # "threw"

(***************************************************************************)
(* The facade's contract, continued (specification Spec).                  *)
(***************************************************************************)
IsList(c) == calls[c].op = "listCollections"

\* C14: a listCollections answered 2xx with a body {results: [...]} returns
\* the inner array itself, the same elements in the same order, and never
\* the wrapper object: the value of a successful call is an array.
ListReturnsInnerArray ==
    \A c \in CallIds :
        (Settled(c) /\ IsList(c) /\ Answered2xx(c)) =>
            /\ calls[c].promise = Resolved(calls[c].outcome.body.f.results)
            /\ calls[c].promise.value.t = "array"
            /\ calls[c].promise.value # calls[c].outcome.body

\* C14 witness: a list of two collections and an empty list have been
\* returned as arrays, the first in the order of the response
ListReturnsInnerArrayWitness ==
    /\ Settled(1) /\ IsList(1) /\ Answered2xx(1)
    /\ Len(calls[1].promise.value.a) = 2
    /\ calls[1].promise.value.a[1].f.collection_id = Str("c2")
    /\ calls[1].promise.value.a[2].f.collection_id = Str("c1")
    /\ Settled(2) /\ IsList(2) /\ Answered2xx(2)
    /\ calls[2].promise.value = Arr(<<>>)

\* the operation table: method and path of each operation
OperationTable ==
    [createCollection |-> <<"POST", "/collection/create/">>,
     listCollections |-> <<"GET", "/collection/all/">>,
     insertResource |-> <<"POST", "/resource/insert/">>,
     queryResource |-> <<"POST", "/collection/query/">>,
     chat |-> <<"POST", "/collection/query/">>,
     deleteResource |-> <<"DELETE", "/resource/remove/">>,
     deleteCollection |-> <<"DELETE", "/collection/delete/">>,
     categorize |-> <<"POST", "/categorize/">>,
     textGeneration |-> <<"POST", "/text-generation/">>,
     imageToText |-> <<"POST", "/image-to-text/">>,
     extract |-> <<"POST", "/data-extraction/">>]

OwnResult(c) ==
    LET o == calls[c].outcome
        v == calls[c].promise.value
    IN /\ calls[c].promise.state = "fulfilled"
       /\ IF Answered2xx(c)
          THEN /\ o.body \in SuccessBodies(calls[c].op)
               /\ v = CASE IsList(c) -> o.body.f.results
                         [] IsQuery(c) /\ StreamOption(calls[c].stream) -> GeneratorObject
                         [] OTHER -> o.body
          ELSE /\ IsErrorValue(v)
               /\ (o.kind = "http" /\ Truthy(o.body)) =>
                      v.f.message = ResponseData(calls[c].req, o)
               /\ o.kind = "network" => v.f.message = Str("Network Error")

\* C20: with several calls in flight on one instance and the answers coming
\* in any order, a step that completes one call changes no other call, a
\* completed call never changes again, and the value a call completes with
\* is the one derived from the answer to its own request.
CallsIsolated ==
    [][\A c \in CallIds :
          calls'[c] # calls[c] =>
              /\ ~Settled(c)
              /\ \A d \in CallIds \ {c} : calls'[d] = calls[d]
              /\ Settled(c)' => OwnResult(c)']_vars

\* C20 witness: of two calls, one has succeeded with its own body and the
\* other has failed with its own error
CallsIsolatedWitness ==
    /\ Settled(1) /\ calls[1].op = "createCollection" /\ Answered2xx(1)
    /\ calls[1].promise.value = SuccessBody("createCollection")
    /\ Settled(2) /\ calls[2].op = "insertResource" /\ AnsweredBadRequest(2)
    /\ calls[2].promise.value = Obj([message |-> BadRequestBody])

(***************************************************************************)
(* The request bodies (specification SpecBodies).                          *)
(***************************************************************************)
IsCreate == built.op = "createCollection"

\* the values of the collection_id entries of the form, in order
CollectionIdEntries ==
    SelectSeq(built.data, LAMBDA e : e.name = "collection_id")

IsAlphanumeric(c) == c \in (48..57) \cup (65..90) \cup (97..122)

\* a string of exactly 15 characters of [A-Za-z0-9]
IsGeneratedId(v) ==
    /\ v.t = "string"
    /\ Len(v.cp) = 15
    /\ \A i \in 1..Len(v.cp) : IsAlphanumeric(v.cp[i])

\* C13 as stated: createCollection sends the caller's collection_id unchanged
\* whenever the caller passes one, generates an identifier of 15 characters
\* of [A-Za-z0-9] only when the caller omits it, and the body has exactly
\* one collection_id field.
CollectionIdAsSupplied ==
    IsCreate =>
        /\ Len(CollectionIdEntries) = 1
        /\ IF built.args.collection_id # NotPassed
           THEN CollectionIdEntries[1].value = built.args.collection_id
           ELSE IsGeneratedId(CollectionIdEntries[1].value)

\* C13 amended: createCollection sends the caller's collection_id unchanged
\* whenever the caller passes a non-empty one, generates an identifier of 15
\* characters of [A-Za-z0-9] when the caller omits it or passes the empty
\* string, and the body has exactly one collection_id field.
CollectionIdUnlessEmpty ==
    IsCreate =>
        /\ Len(CollectionIdEntries) = 1
        /\ IF built.args.collection_id \notin {NotPassed, JText(<<>>)}
           THEN CollectionIdEntries[1].value = built.args.collection_id
           ELSE IsGeneratedId(CollectionIdEntries[1].value)

\* C13 witness: the caller passed "" and the body carries a generated
\* identifier that starts with A and ends with 9
CollectionIdUnlessEmptyWitness ==
    /\ IsCreate
    /\ built.args.collection_id = JText(<<>>)
    /\ IsGeneratedId(built.data[1].value)
    /\ built.data[1].value.cp[1] = 65
    /\ built.data[1].value.cp[15] = 57

OptionalFields == {"json_schema", "json_schema_rules", "model"}

\* C15: in the body of a query, each optional field (json_schema,
\* json_schema_rules, model) has a key only when the caller passed it: for
\* every combination of omitted fields the body has no key for an omitted
\* field, and a key that is present holds neither undefined, null nor "".
OptionalFieldsOmitted ==
    built.op \in {"queryResource", "queryResources"} =>
        \A k \in OptionalFields :
            k \in DOMAIN built.data.f =>
                /\ built.args[k] # NotPassed
                /\ built.data.f[k] \notin {NotPassed, JLit("null"), JText(<<>>)}

\* C15 witness: queryResource called with the three optional fields omitted
\* has built a body of the two required fields
OptionalFieldsOmittedWitness ==
    /\ built.op = "queryResource"
    /\ \A k \in OptionalFields : built.args[k] = NotPassed
    /\ DOMAIN built.data.f = {"collection_id", "request_query"}

\* the operation has put a json_schema in its body
CarriesSchema ==
    \/ built.op \in {"categorize", "extract"}
    \/ built.op = "queryResource" /\ "json_schema" \in DOMAIN built.data.f

SchemaInBody ==
    IF built.op = "extract" THEN built.data[2].value ELSE built.data.f.json_schema

\* C16: queryResource, categorize and extract put the schema in the body as
\* a string, never as a nested object, and JSON.parse of that string gives
\* back a value equal to the schema the caller passed, member for member.
SchemaRoundTrip ==
    CarriesSchema =>
        /\ SchemaInBody.t = "string"
        /\ JSONparse(SchemaInBody.cp) = [ok |-> TRUE, v |-> built.args.json_schema]

\* C16 witness: categorize called with the schema {"\"": "\\\n"} (a key that
\* is a double quote, a value of a backslash and a line feed) has put the
\* escaped text in its body
SchemaRoundTripWitness ==
    /\ built.op = "categorize"
    /\ built.args.json_schema = JObj(<< <<(<<34>>), JText(<<92, 10>>)>> >>)
    /\ built.data.f.json_schema =
          JText(<<123, 34, 92, 34, 34, 58, 34, 92, 92, 92, 110, 34, 125>>)

(***************************************************************************)
(* Cancellation (specification SpecTransport).                             *)
(***************************************************************************)
RequestIds == 1..Len(requests)

InstanceIds == 1..Len(instances)

\* C11: on the transport the library uses, a cancel aborts every request
\* that is in flight when it is called, and only those: a request issued
\* after the cancel has returned holds a live signal, is never aborted by
\* that cancel, and completes when the remote answers.
CancelAbortsInFlight ==
    \A r \in RequestIds :
        /\ requests[r].cancelled => requests[r].state = "aborted"
        /\ requests[r].state = "aborted" =>
              requests[r].cancelled /\ ~requests[r].deadSignal

IsFetch(i) == instances[i].class = "FetchAPI" /\ ~instances[i].threw

\* C19: under every interleaving of request and cancel calls on a FetchAPI,
\* the controller the instance holds is never an aborted one (in every
\* state one scope is active), no request is issued with a signal that is
\* already aborted, and a request in flight holds a signal that is not
\* aborted: it took the old scope before the abort or the fresh one after.
ScopeSwapAtomic ==
    /\ \A i \in InstanceIds :
          IsFetch(i) => instances[i].abortController \notin instances[i].aborted
    /\ \A r \in RequestIds :
          IsFetch(requests[r].instance) =>
              /\ ~requests[r].deadSignal
              /\ requests[r].state = "inflight" =>
                    requests[r].signal \cap instances[requests[r].instance].aborted = {}

\* C19 witness: two requests took the old scope and were aborted with it,
\* and a third, issued after the cancel, is in flight on the fresh scope
ScopeSwapAtomicWitness ==
    /\ IsFetch(1)
    /\ instances[1].aborted = {0}
    /\ instances[1].abortController = 1
    /\ Len(requests) = 3
    /\ requests[1].state = "aborted" /\ requests[1].signal = {0}
    /\ requests[2].state = "aborted" /\ requests[2].signal = {0}
    /\ requests[3].state = "inflight" /\ requests[3].signal = {1}

(***************************************************************************)
(* Construction and credentials (specification SpecConstruction).          *)
(***************************************************************************)
IsFacade(i) == instances[i].class = "Wetrocloud"

OwnHeader(i) ==
    IF instances[i].given \in {Undefined, Str("")} THEN NoHeader
    ELSE [scheme |-> "Token", credential |-> instances[i].given]

\* C18: whatever was constructed, requested or cancelled before, on the same
\* or on another instance, every request sent through an instance carries
\* the credential that instance was constructed with.
CredentialFixed ==
    \A r \in RequestIds : requests[r].authorization = OwnHeader(requests[r].instance)

\* C18 witness: a facade built with k1 and a FetchAPI built with k2; the
\* FetchAPI sent a request, cancelled it and sent another, and the facade
\* sent one after that: each carries its own instance's credential
CredentialFixedWitness ==
    /\ Len(instances) = 2 /\ Len(requests) = 3
    /\ IsFacade(1) /\ instances[1].given = Str("k1")
    /\ IsFetch(2) /\ instances[2].given = Str("k2")
    /\ requests[1].instance = 2 /\ requests[1].state = "aborted"
    /\ requests[2].instance = 2 /\ requests[2].state = "inflight"
    /\ requests[2].authorization = [scheme |-> "Token", credential |-> Str("k2")]
    /\ requests[3].instance = 1
    /\ requests[3].authorization = [scheme |-> "Token", credential |-> Str("k1")]

(***************************************************************************)
(* The transport's request options and its result (specification           *)
(* SpecExchange).                                                          *)
(***************************************************************************)
\* the request has been handed to the HTTP client
Sending == exchange.state \in {"sent", "settled"}

\* a header the caller's own `headers` do not name
Untouched(name) == name \notin DOMAIN exchange.given

\* C21: a request of a transport with a non-empty credential carries
\* Authorization: Token <credential>; a request of a transport with an empty
\* credential carries no Authorization header (the caller's own headers set
\* aside).
AuthorizationUnlessEmpty ==
    Sending /\ Untouched("Authorization") =>
        IF Truthy(exchange.apiSecret)
        THEN /\ "Authorization" \in DOMAIN exchange.headers
             /\ exchange.headers["Authorization"] = TokenHeader(exchange.apiSecret)
        ELSE "Authorization" \notin DOMAIN exchange.headers

\* C22: a request whose body is not a multipart form carries Content-Type
\* application/json; for a request whose body is a multipart form the
\* transport sets no Content-Type (the caller's own headers set aside).
ContentTypeByBody ==
    Sending /\ Untouched("Content-Type") =>
        IF exchange.data.t = "FormData"
        THEN "Content-Type" \notin DOMAIN exchange.headers
        ELSE /\ "Content-Type" \in DOMAIN exchange.headers
             /\ exchange.headers["Content-Type"] = "application/json"

\* object `v` has the member `key` with value `x`
HasMember(v, key, x) ==
    v.t = "object" /\ \E k \in 1..Len(v.m) : v.m[k] = <<key, x>>

\* C23: a response outside [200,300) rejects the call with the decoded body
\* merged with the response's status and statusText, which win over members
\* of the body with these names; a body that does not decode rejects the
\* call with the decode error; a response inside [200,300) never rejects
\* with a merged error.
ErrorNormalized ==
    exchange.state = "settled" =>
        LET response == exchange.response
            decoded == JSONparse(response.text)
            result == exchange.result
            status == <<115, 116, 97, 116, 117, 115>>
            statusText == <<115, 116, 97, 116, 117, 115, 84, 101, 120, 116>>
        IN IF ~ResponseOk(response)
           THEN /\ result.state = "rejected"
                /\ IF ~decoded.ok THEN result.reason = DecodeError
                   ELSE /\ HasMember(result.reason, status, JNum(response.status))
                        /\ HasMember(result.reason, statusText, response.statusText)
                        /\ \A k \in 1..Len(result.reason.m) :
                              result.reason.m[k][1] \in {status, statusText} =>
                                  result.reason.m[k][2] \in
                                      {JNum(response.status), response.statusText}
                        /\ decoded.v.t = "object" =>
                              \A k \in 1..Len(decoded.v.m) :
                                  decoded.v.m[k][1] \notin {status, statusText} =>
                                      HasMember(result.reason, decoded.v.m[k][1],
                                                decoded.v.m[k][2])
           ELSE result.state = "rejected" => result.reason = DecodeError

\* a GET request, as the HTTP client sees it: it reads the method without
\* regard to case
IsGet(method) == method \in {"GET", "get"}

\* C24: the body FetchAPI hands to fetch: none for a GET request whatever
\* `data` is; for any other method the JSON text of a mapping, which
\* decodes to that mapping, and a multipart form itself.
BodySerialization ==
    Sending /\ exchange.class = "FetchAPI" =>
        CASE IsGet(exchange.method) -> exchange.body = NotPassed
          [] exchange.data.t = "object" ->
                /\ exchange.body.t = "string"
                /\ JSONparse(exchange.body.cp) = [ok |-> TRUE, v |-> exchange.data]
          [] exchange.data.t = "FormData" -> exchange.body = exchange.data
          [] OTHER -> TRUE

(***************************************************************************)
(* The decoder's buffer (specification SpecDecoder).                       *)
(***************************************************************************)
\* the lines of `seen` that a newline has ended
CompleteLines == SubSeq(Split(seen), 1, Len(Split(seen)) - 1)

\* C25: whenever the generator waits for the next chunk, its buffer holds
\* no newline and is the text received after the last newline, and the
\* records are those of the complete lines received, each once and in
\* order; inside the loop the lines still to handle are the last lines
\* received, and a turn of the loop takes exactly the first of them and
\* adds what that line yields.
BufferInvariant ==
    /\ [](pc = "await" =>
            /\ \A i \in 1..Len(buffer) : buffer[i] # Newline
            /\ buffer = Trailing
            /\ out = RecordsOf(CompleteLines))
    /\ [](pc = "lines" =>
            /\ Len(parts) >= 1
            /\ parts = SubSeq(Split(seen), Len(Split(seen)) - Len(parts) + 1,
                              Len(Split(seen))))
    /\ [][pc = "lines" /\ pc' = "lines" /\ (parts' # parts \/ out' # out) =>
            /\ parts' = Tail(parts)
            /\ out' = out \o RecordsOf(<<Head(parts)>>)]_vars

\* C25 witness: 1\n\n1 has been received and processed: the first line
\* gave a record, the blank line none, and the buffer holds the unfinished
\* third
BufferInvariantWitness ==
    /\ stream = <<49, 10, 10, 49>>
    /\ pos = Len(stream)
    /\ pc = "await"
    /\ buffer = <<49>>
    /\ out = <<JNum(1)>>

(***************************************************************************)
(* Cancel on an idle FetchAPI (specification SpecTransport).               *)
(***************************************************************************)
\* no request of instance i is in flight
IdleOn(i) ==
    \A r \in RequestIds : requests[r].instance = i => requests[r].state # "inflight"

\* what a caller can see of instance i: whether the signal its next request
\* would take is aborted, and the state of each of its requests
Observable(i) ==
    [scopeAborted |-> instances[i].abortController \in instances[i].aborted,
     states |-> [r \in {q \in RequestIds : requests[q].instance = i} |->
                    requests[r].state]]

\* C26: a cancel on a FetchAPI with no request in flight, the second of two
\* cancels in a row included, changes nothing a caller can see; a request
\* issued afterwards is in flight, however many cancels came before it; a
\* request is aborted only if it was in flight when a cancel was called;
\* and the signal the next request would take is never an aborted one.
CancelIdempotentWhenIdle ==
    /\ [][\A i \in InstanceIds :
            (IsFetch(i) /\ IdleOn(i)
               /\ instances'[i].abortController # instances[i].abortController)
              => Observable(i)' = Observable(i)]_vars
    /\ [][Len(requests') = Len(requests) + 1
            /\ IsFetch(requests'[Len(requests')].instance)
              => requests'[Len(requests')].state = "inflight"]_vars
    /\ [](\A r \in RequestIds :
            IsFetch(requests[r].instance) /\ requests[r].state = "aborted"
              => requests[r].cancelled)
    /\ [](\A i \in InstanceIds : IsFetch(i) => ~Observable(i).scopeAborted)

\* C26 witness: a request was aborted by a first cancel, a second cancel
\* followed with nothing in flight, and a request issued after both is in
\* flight on the third scope; no request ever held the second scope
CancelIdempotentWhenIdleWitness ==
    /\ IsFetch(1)
    /\ instances[1].abortController = 2
    /\ instances[1].aborted = {0, 1}
    /\ Len(requests) = 2
    /\ requests[1].state = "aborted" /\ requests[1].signal = {0}
    /\ requests[2].state = "inflight" /\ requests[2].signal = {2}

====
